---- MODULE Spec2Model ----
(***************************************************************************)
(* A model of pyacq's orchestration core:                                  *)
(*   - Host (pyacq/core/host.py): the registry of spawned NodeGroup        *)
(*     processes and the remote calls that create and close them;          *)
(*   - ThreadPollInput (pyacq/core/tools.py): the background thread that   *)
(*     polls an InputStream and dispatches what it receives.               *)
(* The two parts share no state; each has its own specification.           *)
(***************************************************************************)
EXTENDS Integers, Sequences, FiniteSets, TLC

\* ------------------------------------------------------------------ bounds
NumNames == 2      \* NodeGroup names a caller may use: 1..NumNames
MaxSpawn == 3      \* processes the Host may spawn in one behaviour
MaxSends == 3      \* messages the producer may send in one behaviour
MaxStarts == 2     \* times the poller thread may be started
MaxCount == 2      \* polls and dispatches after a stop() are counted up to this
MaxChan == 2       \* channel indices a group may name: 0..MaxChan
MaxChunkLen == 2   \* samples in one received chunk: 1..MaxChunkLen
MaxChunks == 2     \* chunks a relay Node receives in one behaviour
MaxConnects == 2   \* input connections a ChannelSplitter makes

Names == 1..NumNames
Pids == 1..MaxSpawn

VARIABLES
    \* ---- Host
    nodegroup_process,  \* Host.nodegroup_process: name -> process handle (a pid)
    procState,          \* pid -> "none" | "idle" | "running" | "hung" | "exited" | "killed"
    nextPid,            \* the next process handle the spawner hands out
    serverOpen,         \* the Host's own RPCServer is serving
    request,            \* the remote call the Host's server is about to dispatch
    closing,            \* Host.close() is between its line 31 and its line 32
    reply,              \* what the last dispatched call did and returned
    \* ---- ThreadPollInput
    running,            \* self.running
    input_stream,       \* TRUE while the weakly referenced InputStream exists
    pos_,               \* self._pos: 0 stands for None
    pc,                 \* where the thread is in run()
    queue,              \* messages sent on the stream and not yet received
    nextPosition,       \* the position the producer sends next
    dispatched,         \* the positions handed to process_data, in order
    caller,             \* the controlling thread: "idle" or blocked in "wait"
    stopped,            \* stop() was called since the last start()
    joined,             \* stop() and then wait() have returned since the last start()
    starts,             \* how many times start() launched the thread
    after_stop,         \* what run() did since stop() returned
    \* ---- StreamConverter / ChannelSplitter
    node,               \* which relay Node this is
    configured,         \* _configure() has run
    output_channels,    \* ChannelSplitter.output_channels: group name -> channel list
    output_timeaxis,    \* ChannelSplitter.output_timeaxis: same, 0 or 1
    asked_timeaxis,     \* the output_timeaxis argument _configure() was given
    input_params,       \* self.input.params of the connected input
    output_params,      \* StreamConverter: self.output.params
    outputs,            \* ChannelSplitter.outputs: name -> stream spec
    connect_result,     \* how the last input connection ended
    connects,           \* input connections made
    conversions,        \* StreamConverter.conversions
    received,           \* the positions recv() handed to process_data
    sent,               \* per output, the (position, data) sent on it
    fault               \* the exception that ended process_data, if any

hostVars == <<nodegroup_process, procState, nextPid, serverOpen, request, closing, reply>>
pollVars == <<running, input_stream, pos_, pc, queue, nextPosition, dispatched,
              caller, stopped, joined, starts, after_stop>>
relayVars == <<node, configured, output_channels, output_timeaxis, asked_timeaxis, input_params,
               output_params, outputs, connect_result, connects, conversions,
               received, sent, fault>>
vars == <<hostVars, pollVars, relayVars>>

\* ================================================================== Host

NoCall == [op |-> "none", name |-> 0, force |-> FALSE]
NoReply == [op |-> "none", name |-> 0, force |-> FALSE, result |-> "none",
            queried |-> {}, applied |-> {}, owned |-> {}]

Live == {"idle", "running", "hung"}
Gone == {"none", "exited", "killed"}

\* The registry without the entry for name (del self.nodegroup_process[name]).
DelEntry(reg, name) == [n \in DOMAIN reg \ {name} |-> reg[n]]

\* The registry with name bound to ps (self.nodegroup_process[name] = ps).
SetEntry(reg, name, ps) == [n \in DOMAIN reg \cup {name} |-> IF n = name THEN ps ELSE reg[n]]

\* assert name not in self.nodegroup_process
AlreadyOwned_Never(reg, name) == FALSE
AlreadyOwned(reg, name) == name \in DOMAIN reg

\* ps = ProcessSpawner(...); self.nodegroup_process[name] = ps: the entry is
\* written only when the spawner returned a handle.
Registered_Always(reg, name, ps, outcome) == SetEntry(reg, name, ps)
Registered(reg, name, ps, outcome) ==
    IF outcome = "ok" THEN SetEntry(reg, name, ps) ELSE reg

\* ProcessSpawner(NodeGroup, name, addr): the subprocess confirms readiness
\* ("ok") or the startup timeout elapses ("SpawnTimeout").
SpawnOutcomes == {"ok", "SpawnTimeout"}

\* ProcessHandle.stop(): orderly shutdown through the proxy; a process that
\* does not answer is force-terminated after the grace period.
StopProcess(s) == IF s = "hung" THEN "killed" ELSE "exited"

\* client.any_node_running(): a remote call, which times out on a process
\* that does not answer.
any_node_running(s) == IF s = "hung" THEN "Timeout" ELSE IF s = "running" THEN "yes" ELSE "no"

\* Host.close_nodegroup(name, force) on the state st = [reg, procs, queried,
\* applied, result]: the state after the call, with what it raised.
close_nodegroup_NoCheck(st, name, force) ==
    LET base == [st EXCEPT !.applied = @ \cup {name}] IN
    IF name \notin DOMAIN st.reg
    THEN [base EXCEPT !.result = "KeyError"]
    ELSE [base EXCEPT !.procs[st.reg[name]] = StopProcess(@),
                      !.reg = DelEntry(st.reg, name),
                      !.result = "ok"]
close_nodegroup_NoDel(st, name, force) ==
    LET base == [st EXCEPT !.applied = @ \cup {name}] IN
    IF name \notin DOMAIN st.reg
    THEN [base EXCEPT !.result = "KeyError"]
    ELSE LET pid == st.reg[name]
             ask == IF force THEN "no" ELSE any_node_running(st.procs[pid])
             asked == IF force THEN base ELSE [base EXCEPT !.queried = @ \cup {name}]
         IN  IF ask = "Timeout" THEN [asked EXCEPT !.result = "Timeout"]
             ELSE IF ask = "yes" THEN [asked EXCEPT !.result = "NodesStillRunning"]
             ELSE [asked EXCEPT !.procs[pid] = StopProcess(@), !.result = "ok"]
close_nodegroup_StopFirst(st, name, force) ==
    LET base == [st EXCEPT !.applied = @ \cup {name}] IN
    IF name \notin DOMAIN st.reg
    THEN [base EXCEPT !.result = "KeyError"]
    ELSE LET pid == st.reg[name]
             ask == IF force THEN "no" ELSE any_node_running(st.procs[pid])
             asked == IF force THEN base ELSE [base EXCEPT !.queried = @ \cup {name}]
             halted == [asked EXCEPT !.procs[pid] = StopProcess(@)]
         IN  IF ask = "Timeout" THEN [halted EXCEPT !.result = "Timeout"]
             ELSE IF ask = "yes" THEN [halted EXCEPT !.result = "NodesStillRunning"]
             ELSE [halted EXCEPT !.reg = DelEntry(st.reg, name), !.result = "ok"]
close_nodegroup(st, name, force) ==
    LET base == [st EXCEPT !.applied = @ \cup {name}] IN
    IF name \notin DOMAIN st.reg
    THEN [base EXCEPT !.result = "KeyError"]
    ELSE LET pid == st.reg[name]
             ask == IF force THEN "no" ELSE any_node_running(st.procs[pid])
             asked == IF force THEN base ELSE [base EXCEPT !.queried = @ \cup {name}]
         IN  IF ask = "Timeout" THEN [asked EXCEPT !.result = "Timeout"]
             ELSE IF ask = "yes" THEN [asked EXCEPT !.result = "NodesStillRunning"]
             ELSE [asked EXCEPT !.procs[pid] = StopProcess(@),
                                !.reg = DelEntry(st.reg, name),
                                !.result = "ok"]

\* Host.close_all_nodegroups(force): the loop over list(keys()), which an
\* exception raised by close_nodegroup leaves.
RECURSIVE close_all_nodegroups(_, _, _)
close_all_nodegroups_FirstOnly(st, order, force) ==
    IF order = <<>> THEN st ELSE close_nodegroup(st, Head(order), force)
close_all_nodegroups(st, order, force) ==
    IF order = <<>> THEN st
    ELSE LET r == close_nodegroup(st, Head(order), force) IN
         IF r.result # "ok" THEN r
         ELSE close_all_nodegroups(r, Tail(order), force)

\* list(self.nodegroup_process.keys()): the keys, in whichever order the
\* dict yields them.
KeyOrders(reg) ==
    LET n == Cardinality(DOMAIN reg) IN
    {s \in [1..n -> DOMAIN reg] : \A i, j \in 1..n : i # j => s[i] # s[j]}

HostState == [reg |-> nodegroup_process, procs |-> procState,
              queried |-> {}, applied |-> {}, result |-> "ok"]

Answer(st) == [op |-> request.op, name |-> request.name, force |-> request.force,
               result |-> st.result, queried |-> st.queried, applied |-> st.applied,
               owned |-> DOMAIN nodegroup_process]

\* A remote call reaches the Host's server, which handles one call at a time.
Call(op, name, force) ==
    /\ serverOpen /\ request = NoCall /\ ~closing
    /\ op = "create_nodegroup" => nextPid <= MaxSpawn
    /\ request' = [op |-> op, name |-> name, force |-> force]
    /\ UNCHANGED <<nodegroup_process, procState, nextPid, serverOpen, closing, reply>>
    /\ UNCHANGED <<pollVars, relayVars>>

\* Host.create_nodegroup(name, addr)
create_nodegroup ==
    /\ request.op = "create_nodegroup"
    /\ request' = NoCall
    /\ IF AlreadyOwned(nodegroup_process, request.name)
       THEN /\ reply' = Answer([HostState EXCEPT !.result = "AlreadyExists"])
            /\ UNCHANGED <<nodegroup_process, procState, nextPid>>
       ELSE \E outcome \in SpawnOutcomes :
              /\ nodegroup_process' =
                     Registered(nodegroup_process, request.name, nextPid, outcome)
              /\ reply' = Answer([HostState EXCEPT !.result = outcome])
              /\ IF outcome = "ok"
                 THEN /\ procState' = [procState EXCEPT ![nextPid] = "idle"]
                      /\ nextPid' = nextPid + 1
                 ELSE UNCHANGED <<procState, nextPid>>
    /\ UNCHANGED <<serverOpen, closing>>
    /\ UNCHANGED <<pollVars, relayVars>>

\* Host.close_nodegroup(name, force), dispatched
CloseNodegroup ==
    /\ request.op = "close_nodegroup"
    /\ request' = NoCall
    /\ LET r == close_nodegroup(HostState, request.name, request.force) IN
         /\ nodegroup_process' = r.reg
         /\ procState' = r.procs
         /\ reply' = Answer(r)
    /\ UNCHANGED <<nextPid, serverOpen, closing>>
    /\ UNCHANGED <<pollVars, relayVars>>

\* Host.close_all_nodegroups(force), dispatched
CloseAllNodegroups ==
    /\ request.op = "close_all_nodegroups"
    /\ request' = NoCall
    /\ \E order \in KeyOrders(nodegroup_process) :
         LET r == close_all_nodegroups(HostState, order, request.force) IN
           /\ nodegroup_process' = r.reg
           /\ procState' = r.procs
           /\ reply' = Answer(r)
    /\ UNCHANGED <<nextPid, serverOpen, closing>>
    /\ UNCHANGED <<pollVars, relayVars>>

\* Host.close(), line 31: self.close_all_nodegroups(force = True)
close_force_False == FALSE
close_force == TRUE

close_nodegroups ==
    /\ request.op = "close" /\ ~closing
    /\ \E order \in KeyOrders(nodegroup_process) :
         LET r == close_all_nodegroups(HostState, order, close_force) IN
           /\ nodegroup_process' = r.reg
           /\ procState' = r.procs
           /\ IF r.result = "ok"
              THEN closing' = TRUE /\ UNCHANGED <<request, reply>>
              ELSE closing' = FALSE /\ request' = NoCall /\ reply' = Answer(r)
    /\ UNCHANGED <<nextPid, serverOpen>>
    /\ UNCHANGED <<pollVars, relayVars>>

\* Host.close(), line 32: RPCServer.close(self)
close_server ==
    /\ request.op = "close" /\ closing
    /\ serverOpen' = FALSE
    /\ closing' = FALSE
    /\ request' = NoCall
    /\ reply' = Answer(HostState)
    /\ UNCHANGED <<nodegroup_process, procState, nextPid>>
    /\ UNCHANGED <<pollVars, relayVars>>

\* The NodeGroup processes live their own life: their Nodes are started and
\* stopped by other clients, and a process may stop answering.
NodeGroupStep(p) ==
    /\ procState[p] \in {"idle", "running"}
    /\ \E s \in Live \ {procState[p]} : procState' = [procState EXCEPT ![p] = s]
    /\ UNCHANGED <<nodegroup_process, nextPid, serverOpen, request, closing, reply>>
    /\ UNCHANGED <<pollVars, relayVars>>


\* ==================================== StreamConverter and ChannelSplitter

\* output_timeaxis = 'same'
same == -1

GroupNames == {"a", "b"}

\* The channel lists a group may be configured with.
ChanLists ==
    {c \in UNION {[1..k -> 0..MaxChan] : k \in 1..2} :
        \A i, j \in DOMAIN c : i < j => c[i] < c[j]}

\* The output_channels dicts a caller may configure.
Configs == UNION {[D -> ChanLists] : D \in {{"a"}, {"a", "b"}}}

TransferModes == {"plaindata", "sharedarray"}

\* The params of the streams an input may be connected to.
InputSpecs ==
    [connected : {TRUE}, timeaxis : {0, 1}, nb_channel : 2..(MaxChan + 1),
     dtype : {"float32", "int16"}, sample_rate : {1000}, transfermode : TransferModes]

NotConnected ==
    [connected |-> FALSE, timeaxis |-> 0, nb_channel |-> 0, dtype |-> "none",
     sample_rate |-> 0, transfermode |-> "none"]

\* A chunk of n samples of nch channels as the array the stream carries:
\* shape (n, nch) when timeaxis is 0 and (nch, n) when it is 1. Every element
\* is named by its sample and its channel, <<t, ch>>.
NoneData == [kind |-> "None", rows |-> 0, cols |-> 0, at |-> <<>>]
Chunk(ta, n, nch) ==
    IF ta = 0
    THEN [kind |-> "array", rows |-> n, cols |-> nch,
          at |-> [rc \in (0..(n - 1)) \X (0..(nch - 1)) |-> <<rc[1], rc[2]>>]]
    ELSE [kind |-> "array", rows |-> nch, cols |-> n,
          at |-> [rc \in (0..(nch - 1)) \X (0..(n - 1)) |-> <<rc[2], rc[1]>>]]

\* numpy's data[:, chans]: every row, the columns listed; an index beyond
\* the last column raises IndexError.
IndexError == [kind |-> "IndexError", rows |-> 0, cols |-> 0, at |-> <<>>]
TakeColumns(data, chans) ==
    IF \E j \in DOMAIN chans : chans[j] >= data.cols
    THEN IndexError
    ELSE [kind |-> "array", rows |-> data.rows, cols |-> Len(chans),
          at |-> [rc \in (0..(data.rows - 1)) \X (0..(Len(chans) - 1)) |->
                     data.at[<<rc[1], chans[rc[2] + 1]>>]]]

\* InputStream.recv(): (position, data), data being None in sharedarray mode.
recv_data(params, n) ==
    IF params.transfermode = "sharedarray" THEN NoneData
    ELSE Chunk(params.timeaxis, n, params.nb_channel)

\* InputStream.get_array_slice(position, length): the view of the samples
\* that end at position; any other argument list is a TypeError.
TypeError == [kind |-> "TypeError", rows |-> 0, cols |-> 0, at |-> <<>>]
get_array_slice(args, params, n) ==
    IF Len(args) = 2 THEN Chunk(params.timeaxis, n, params.nb_channel) ELSE TypeError

\* The orders in which a dict's items may be listed.
ItemOrders(d) ==
    LET k == Cardinality(DOMAIN d) IN
    {o \in [1..k -> DOMAIN d] : \A i, j \in 1..k : i # j => o[i] # o[j]}

\* Node.__init__ of a registered node type: the node this relay is.
create_node(nodetype) ==
    /\ node = "none"
    /\ node' = nodetype
    /\ UNCHANGED <<configured, output_channels, output_timeaxis, asked_timeaxis,
                   input_params, output_params, outputs, connect_result, connects,
                   conversions, received, sent, fault>>
    /\ UNCHANGED <<hostVars, pollVars>>

\* ---------------------------------------------------------- ChannelSplitter

\* ChannelSplitter._configure(output_channels, output_timeaxis)
configure(oc, ota) ==
    /\ node = "ChannelSplitter"
    /\ ~configured
    /\ configured' = TRUE
    /\ output_channels' = oc
    /\ output_timeaxis' = ota
    /\ asked_timeaxis' = ota
    /\ UNCHANGED <<node, input_params, output_params, outputs, connect_result,
                   connects, conversions, received, sent, fault>>
    /\ UNCHANGED <<hostVars, pollVars>>

\* after_input_connect, lines 220-229: the spec of the output for chans.
stream_spec(chans, timeaxis, params) ==
    [streamtype |-> "analogsignal", dtype |-> params.dtype,
     sample_rate |-> params.sample_rate, port |-> "*",
     nb_channel |-> Len(chans), timeaxis |-> timeaxis,
     shape |-> IF timeaxis = 0 THEN <<-1, Len(chans)>> ELSE <<Len(chans), -1>>]

\* after_input_connect, lines 217-232: the loop over output_channels.items(),
\* from the outputs built so far; the assert ends it.
RECURSIVE make_outputs(_, _, _, _, _)
make_outputs(built, order, oc, timeaxis, params) ==
    IF order = <<>> THEN [outputs |-> built, result |-> "ok"]
    ELSE LET k == Head(order)
             chans == oc[k]
         IN  IF \E j \in DOMAIN chans : chans[j] < 0 \/ chans[j] >= params.nb_channel
             THEN [outputs |-> built, result |-> "AssertionError"]
             ELSE make_outputs(
                      [x \in DOMAIN built \cup {k} |->
                          IF x = k THEN stream_spec(chans, timeaxis, params) ELSE built[x]],
                      Tail(order), oc, timeaxis, params)

NoOutputs == [x \in {} |-> 0]

\* self.input.connect(someinput), which runs after_input_connect('in')
connect(params) ==
    /\ node = "ChannelSplitter"
    /\ configured
    /\ received = <<>>
    /\ connects < MaxConnects
    /\ connects' = connects + 1
    /\ input_params' = params
    /\ LET timeaxis == IF output_timeaxis = same THEN params.timeaxis ELSE output_timeaxis IN
         /\ output_timeaxis' = timeaxis
         /\ \E order \in ItemOrders(output_channels) :
              LET r == make_outputs(NoOutputs, order, output_channels, timeaxis, params) IN
                /\ outputs' = r.outputs
                /\ connect_result' = r.result
                /\ sent' = [k \in DOMAIN r.outputs |-> <<>>]
    /\ UNCHANGED <<node, configured, output_channels, asked_timeaxis, output_params,
                   conversions, received, fault>>
    /\ UNCHANGED <<hostVars, pollVars>>

\* ThreadSplitter.process_data, lines 171-172: the sends, in the order of
\* output_channels.items(); an exception ends the loop.
RECURSIVE split_sends(_, _, _, _, _)
split_sends(out, order, oc, position, data) ==
    IF order = <<>> THEN [sent |-> out, fault |-> "none"]
    ELSE LET k == Head(order)
             part == TakeColumns(data, oc[k])
         IN  IF part.kind = "IndexError"
             THEN [sent |-> out, fault |-> "IndexError"]
             ELSE split_sends([out EXCEPT ![k] = Append(@, [position |-> position,
                                                            data |-> part])],
                              Tail(order), oc, position, data)

LastPosition == IF received = <<>> THEN 0 ELSE received[Len(received)]

\* ThreadSplitter: recv() of a chunk of n samples, then process_data(pos, data)
split_process(n) ==
    /\ node = "ChannelSplitter"
    /\ connect_result = "ok"
    /\ fault = "none"
    /\ Len(received) < MaxChunks
    /\ LET position == LastPosition + n
           got == recv_data(input_params, n)
           data == IF got.kind = "None"
                   THEN get_array_slice(<<position, "None">>, input_params, n)
                   ELSE got
       IN  /\ received' = Append(received, position)
           /\ \E order \in ItemOrders(output_channels) :
                LET r == split_sends(sent, order, output_channels, position, data) IN
                  /\ sent' = r.sent
                  /\ fault' = r.fault
    /\ UNCHANGED <<node, configured, output_channels, output_timeaxis, asked_timeaxis,
                   input_params, output_params, outputs, connect_result, connects,
                   conversions>>
    /\ UNCHANGED <<hostVars, pollVars>>

\* ---------------------------------------------------------- StreamConverter

\* StreamConverter._initialize, lines 130-138, for the key 'transfermode'
make_conversions(old, new) ==
    IF old # new THEN [k \in {"transfermode"} |-> <<old, new>>]
    ELSE [k \in {} |-> <<>>]

\* conv.input.connect(someinput); conv.output.configure(spec); conv.initialize()
conv_initialize(params, outmode) ==
    /\ node = "StreamConverter"
    /\ ~configured
    /\ configured' = TRUE
    /\ input_params' = params
    /\ output_params' = [transfermode |-> outmode]
    /\ conversions' = make_conversions(params.transfermode, outmode)
    /\ sent' = [k \in {"out"} |-> <<>>]
    /\ UNCHANGED <<node, output_channels, output_timeaxis, asked_timeaxis, outputs,
                   connect_result, connects, received, fault>>
    /\ UNCHANGED <<hostVars, pollVars>>

\* ThreadStreamConverter.process_data, lines 91-95, after recv() of a chunk
\* of n samples
conv_process(n) ==
    /\ node = "StreamConverter"
    /\ configured
    /\ fault = "none"
    /\ Len(received) < MaxChunks
    /\ LET position == LastPosition + n
           got == recv_data(input_params, n)
           data == IF /\ "transfermode" \in DOMAIN conversions
                      /\ conversions["transfermode"][1] = "sharedarray"
                   THEN get_array_slice(<<"self", position, "None">>, input_params, n)
                   ELSE got
       IN  /\ received' = Append(received, position)
           /\ IF data.kind = "TypeError"
              THEN fault' = "TypeError" /\ UNCHANGED sent
              ELSE /\ fault' = "none"
                   /\ sent' = [sent EXCEPT !["out"] = Append(@, [position |-> position,
                                                               data |-> data])]
    /\ UNCHANGED <<node, configured, output_channels, output_timeaxis, asked_timeaxis,
                   input_params, output_params, outputs, connect_result, connects,
                   conversions>>
    /\ UNCHANGED <<hostVars, pollVars>>

RelayInit ==
    /\ node = "none"
    /\ configured = FALSE
    /\ output_channels = [k \in {} |-> <<>>]
    /\ output_timeaxis = same
    /\ asked_timeaxis = same
    /\ input_params = NotConnected
    /\ output_params = [transfermode |-> "none"]
    /\ outputs = NoOutputs
    /\ connect_result = "none"
    /\ connects = 0
    /\ conversions = [k \in {} |-> <<>>]
    /\ received = <<>>
    /\ sent = [k \in {} |-> <<>>]
    /\ fault = "none"

RelayNext ==
    \/ \E nodetype \in {"StreamConverter", "ChannelSplitter"} : create_node(nodetype)
    \/ \E oc \in Configs, ota \in {same, 0, 1} : configure(oc, ota)
    \/ \E params \in InputSpecs : connect(params)
    \/ \E n \in 1..MaxChunkLen : split_process(n)
    \/ \E params \in InputSpecs, outmode \in TransferModes : conv_initialize(params, outmode)
    \/ \E n \in 1..MaxChunkLen : conv_process(n)

HostInit ==
    /\ nodegroup_process = [n \in {} |-> 0]
    /\ procState = [p \in Pids |-> "none"]
    /\ nextPid = 1
    /\ serverOpen = TRUE
    /\ request = NoCall
    /\ closing = FALSE
    /\ reply = NoReply

PollInit ==
    /\ running = FALSE
    /\ input_stream = TRUE
    /\ pos_ = 0
    /\ pc = "unstarted"
    /\ queue = <<>>
    /\ nextPosition = 1
    /\ dispatched = <<>>
    /\ caller = "idle"
    /\ stopped = FALSE
    /\ joined = FALSE
    /\ starts = 0
    /\ after_stop = [at |-> "none", polls |-> 0, dispatches |-> 0]

Init == HostInit /\ PollInit /\ RelayInit

HostNext ==
    \/ \E name \in Names : Call("create_nodegroup", name, FALSE)
    \/ \E name \in Names, force \in BOOLEAN : Call("close_nodegroup", name, force)
    \/ \E force \in BOOLEAN : Call("close_all_nodegroups", 0, force)
    \/ Call("close", 0, FALSE)
    \/ create_nodegroup
    \/ CloseNodegroup
    \/ CloseAllNodegroups
    \/ close_nodegroups
    \/ close_server
    \/ \E p \in Pids : NodeGroupStep(p)

Spec == Init /\ [][HostNext]_vars

\* ======================================================= ThreadPollInput

Inert == {"unstarted", "finished", "crashed"}    \* no thread body is executing
AtLoopTop == {"loop", "poll"}                    \* between two poll cycles
Looping == {"loop", "poll", "recv", "dispatch"}  \* inside the while loop

\* What the loop did since stop() first returned after the last start():
\* at is where run() was when stop() returned ("none": no stop yet), polls
\* and dispatches count the calls of poll and of process_data made since,
\* up to MaxCount.
NoStop == [at |-> "none", polls |-> 0, dispatches |-> 0]
Counted(c, what) ==
    IF c.at = "none" \/ c[what] >= MaxCount THEN c ELSE [c EXCEPT ![what] = @ + 1]

\* OutputStream.send(position, data): one message per send reaches the
\* connected InputStream. A message carries its position; polls counts the
\* polls that returned since it was sent, ahead the messages that were
\* waiting before it, and live whether the poller's loop was executing.
send ==
    /\ input_stream
    /\ nextPosition <= MaxSends
    /\ queue' = Append(queue, [position |-> nextPosition, polls |-> 0,
                               ahead |-> Len(queue),
                               live |-> pc \in Looping /\ running])
    /\ nextPosition' = nextPosition + 1
    /\ UNCHANGED <<running, input_stream, pos_, pc, dispatched, caller, stopped,
                   joined, starts>>
    /\ UNCHANGED after_stop
    /\ UNCHANGED <<hostVars, relayVars>>

\* self.input_stream = weakref.ref(input_stream): the owner of the stream
\* drops it, and the weak reference then yields None.
lose_input_stream ==
    /\ input_stream
    /\ input_stream' = FALSE
    /\ UNCHANGED <<running, pos_, pc, queue, nextPosition, dispatched, caller,
                   stopped, joined, starts>>
    /\ UNCHANGED after_stop
    /\ UNCHANGED <<hostVars, relayVars>>

\* self.thread.start(): QThread.start() launches run() in a new thread; the
\* body has not begun executing when start() returns.
start ==
    /\ caller = "idle"
    /\ pc \in Inert
    /\ starts < MaxStarts
    /\ pc' = "started"
    /\ starts' = starts + 1
    /\ stopped' = FALSE
    /\ joined' = FALSE
    /\ UNCHANGED <<running, input_stream, pos_, queue, nextPosition, dispatched, caller>>
    /\ after_stop' = NoStop
    /\ UNCHANGED <<hostVars, relayVars>>

\* ThreadPollInput.stop()
stop ==
    /\ caller = "idle"
    /\ running' = FALSE
    /\ stopped' = TRUE
    /\ joined' = FALSE
    /\ UNCHANGED <<input_stream, pos_, pc, queue, nextPosition, dispatched, caller, starts>>
    /\ after_stop' = IF after_stop.at = "none" THEN [after_stop EXCEPT !.at = pc]
                   ELSE after_stop
    /\ UNCHANGED <<hostVars, relayVars>>

\* self.thread.wait(): the caller blocks ...
wait_begin ==
    /\ caller = "idle"
    /\ caller' = "wait"
    /\ UNCHANGED <<running, input_stream, pos_, pc, queue, nextPosition, dispatched,
                   stopped, joined, starts>>
    /\ UNCHANGED after_stop
    /\ UNCHANGED <<hostVars, relayVars>>

\* ... until run() has returned (or the thread was never started).
wait_return_NoJoin ==
    /\ caller = "wait"
    /\ caller' = "idle"
    /\ joined' = stopped
    /\ UNCHANGED <<running, input_stream, pos_, pc, queue, nextPosition, dispatched,
                   stopped, starts>>
    /\ UNCHANGED after_stop
    /\ UNCHANGED <<hostVars, relayVars>>
wait_return ==
    /\ caller = "wait"
    /\ pc \in Inert
    /\ caller' = "idle"
    /\ joined' = stopped
    /\ UNCHANGED <<running, input_stream, pos_, pc, queue, nextPosition, dispatched,
                   stopped, starts>>
    /\ UNCHANGED after_stop
    /\ UNCHANGED <<hostVars, relayVars>>

\* run(), lines 35-36: with self.running_lock: self.running = True
run_begin ==
    /\ pc = "started"
    /\ running' = TRUE
    /\ pc' = "loop"
    /\ UNCHANGED <<input_stream, pos_, queue, nextPosition, dispatched, caller,
                   stopped, joined, starts>>
    /\ UNCHANGED after_stop
    /\ UNCHANGED <<hostVars, relayVars>>

\* run(), lines 39-44: under the lock, leave the loop when the flag is down
\* or the stream is gone.
loop_check_NoFlag ==
    /\ pc = "loop"
    /\ pc' = IF ~input_stream THEN "finished" ELSE "poll"
    /\ UNCHANGED <<running, input_stream, pos_, queue, nextPosition, dispatched,
                   caller, stopped, joined, starts>>
    /\ UNCHANGED after_stop
    /\ UNCHANGED <<hostVars, relayVars>>
loop_check ==
    /\ pc = "loop"
    /\ pc' = IF ~running THEN "finished"
             ELSE IF ~input_stream THEN "finished"
             ELSE "poll"
    /\ UNCHANGED <<running, input_stream, pos_, queue, nextPosition, dispatched,
                   caller, stopped, joined, starts>>
    /\ UNCHANGED after_stop
    /\ UNCHANGED <<hostVars, relayVars>>

\* What poll(timeout) leaves in the socket: every waiting message has seen
\* one more poll return.
Polled(q) == [i \in DOMAIN q |-> [q[i] EXCEPT !.polls = @ + 1]]

\* run(), lines 45-46: ev = self.input_stream().poll(timeout=self.timeout);
\* if ev>0. On a dead reference the call is made on None and raises.
poll_IgnoreEv ==
    /\ pc = "poll"
    /\ IF ~input_stream
       THEN pc' = "crashed" /\ UNCHANGED queue
       ELSE IF queue # <<>>
            THEN pc' = "loop" /\ queue' = Polled(queue)
            ELSE pc' = "loop" /\ UNCHANGED queue
    /\ UNCHANGED <<running, input_stream, pos_, nextPosition, dispatched, caller,
                   stopped, joined, starts>>
    /\ after_stop' = Counted(after_stop, "polls")
    /\ UNCHANGED <<hostVars, relayVars>>
poll ==
    /\ pc = "poll"
    /\ IF ~input_stream
       THEN pc' = "crashed" /\ UNCHANGED queue
       ELSE IF queue # <<>>
            THEN pc' = "recv" /\ queue' = Polled(queue)
            ELSE pc' = "loop" /\ UNCHANGED queue
    /\ UNCHANGED <<running, input_stream, pos_, nextPosition, dispatched, caller,
                   stopped, joined, starts>>
    /\ after_stop' = Counted(after_stop, "polls")
    /\ UNCHANGED <<hostVars, relayVars>>

\* run(), line 47: self._pos, data = self.input_stream().recv()
recv_NoPop ==
    /\ pc = "recv"
    /\ IF ~input_stream
       THEN pc' = "crashed" /\ UNCHANGED <<pos_, queue>>
       ELSE /\ pos_' = Head(queue).position
            /\ UNCHANGED queue
            /\ pc' = "dispatch"
    /\ UNCHANGED <<running, input_stream, nextPosition, dispatched, caller,
                   stopped, joined, starts>>
    /\ UNCHANGED after_stop
    /\ UNCHANGED <<hostVars, relayVars>>
recv ==
    /\ pc = "recv"
    /\ IF ~input_stream
       THEN pc' = "crashed" /\ UNCHANGED <<pos_, queue>>
       ELSE /\ pos_' = Head(queue).position
            /\ queue' = Tail(queue)
            /\ pc' = "dispatch"
    /\ UNCHANGED <<running, input_stream, nextPosition, dispatched, caller,
                   stopped, joined, starts>>
    /\ UNCHANGED after_stop
    /\ UNCHANGED <<hostVars, relayVars>>

\* run(), line 48, and process_data: self.new_data.emit(self._pos, data)
process_data ==
    /\ pc = "dispatch"
    /\ dispatched' = Append(dispatched, pos_)
    /\ pc' = "loop"
    /\ UNCHANGED <<running, input_stream, pos_, queue, nextPosition, caller,
                   stopped, joined, starts>>
    /\ after_stop' = Counted(after_stop, "dispatches")
    /\ UNCHANGED <<hostVars, relayVars>>

\* ThreadPollInput.pos()
pos == pos_

ThreadStep == run_begin \/ loop_check \/ poll \/ recv \/ process_data

PollNext ==
    \/ send
    \/ lose_input_stream
    \/ start
    \/ stop
    \/ wait_begin
    \/ wait_return
    \/ run_begin
    \/ loop_check
    \/ poll
    \/ recv
    \/ process_data

PollSpec == Init /\ [][PollNext]_vars

\* The operating system schedules the poller's thread fairly, and a poll
\* returns after its timeout at the latest.
PollSpecFair == PollSpec /\ WF_vars(ThreadStep)

\* Moreover QThread.wait() returns once run() has returned.
PollSpecFairJoin == PollSpecFair /\ WF_vars(wait_return)

RelaySpec == Init /\ [][RelayNext]_vars

\* ================================================================ claims

\* The step in which the Host's server dispatches the pending call op.
Dispatches(op) == request.op = op /\ request' = NoCall

Owned(name) == name \in DOMAIN nodegroup_process

\* C1: create_nodegroup(name, addr) on a name the Host already owns fails
\* with AlreadyExists, spawns no process and leaves the registry, with its
\* one entry for name, as it was.
C1_DuplicateCreateFails ==
    [][(Dispatches("create_nodegroup") /\ Owned(request.name)) =>
          /\ reply'.result = "AlreadyExists"
          /\ nextPid' = nextPid
          /\ procState' = procState
          /\ nodegroup_process' = nodegroup_process
          /\ request.name \in DOMAIN nodegroup_process']_vars

C1_Witness ==
    /\ reply.op = "create_nodegroup"
    /\ reply.result = "AlreadyExists"
    /\ Owned(reply.name)

\* C2: close_nodegroup(name, force=False) on an owned NodeGroup that reports
\* a Running Node fails with NodesStillRunning; with force=True it succeeds,
\* stops the process and removes the entry, and never asks any_node_running.
C2_CloseRunningNodegroup ==
    [][(/\ Dispatches("close_nodegroup")
        /\ Owned(request.name)
        /\ procState[nodegroup_process[request.name]] = "running") =>
          IF request.force
          THEN /\ reply'.result = "ok"
               /\ request.name \notin DOMAIN nodegroup_process'
               /\ procState'[nodegroup_process[request.name]] \in {"exited", "killed"}
               /\ reply'.queried = {}
          ELSE /\ reply'.result = "NodesStillRunning"]_vars

C2_Witness ==
    /\ reply.op = "close_nodegroup"
    /\ ~reply.force
    /\ reply.result = "NodesStillRunning"
    /\ Owned(reply.name)
    /\ procState[nodegroup_process[reply.name]] = "running"

\* C3: after Host.close() the Host owns no NodeGroup and every process it
\* spawned has exited, also when a process did not answer the orderly stop.
C3_CloseLeavesNothing ==
    reply.op = "close" =>
        /\ DOMAIN nodegroup_process = {}
        /\ \A p \in Pids : procState[p] \in Gone

C3_Witness ==
    /\ reply.op = "close"
    /\ \E p, q \in Pids : p # q /\ procState[p] = "killed" /\ procState[q] = "exited"

\* C4: Host.close() shuts its own server down only once every owned
\* NodeGroup is closed: at the step that closes the server the registry is
\* empty and no spawned process is alive.
C4_ServerClosedLast ==
    [][(serverOpen /\ ~serverOpen') =>
          /\ DOMAIN nodegroup_process = {}
          /\ \A p \in Pids : procState[p] \notin Live]_vars

C4_Witness ==
    /\ ~serverOpen
    /\ Cardinality({p \in Pids : procState[p] \in {"exited", "killed"}}) >= 2

\* C5: a create_nodegroup that fails (duplicate name, spawn failure or
\* timeout) leaves the registry exactly as it was.
C5_FailedCreateLeavesRegistry ==
    [][(Dispatches("create_nodegroup") /\ reply'.result # "ok") =>
          nodegroup_process' = nodegroup_process]_vars

C5_Witness ==
    /\ reply.op = "create_nodegroup"
    /\ reply.result = "SpawnTimeout"
    /\ ~Owned(reply.name)

\* C6: close_all_nodegroups(force) applies close_nodegroup(name, force) to
\* every NodeGroup owned at the time of the call; none is skipped.
C6_CloseAllAppliesToAll ==
    reply.op = "close_all_nodegroups" => reply.applied = reply.owned

\* C7: once stop() was called and a following wait() has returned, the
\* handler process_data is not called again until the poller is restarted.
C7_NoDispatchAfterJoin ==
    [][joined => (dispatched' = dispatched /\ pc' \in Inert \cup {"started"})]_vars

C7_Witness ==
    /\ joined
    /\ pc = "finished"
    /\ input_stream
    /\ queue # <<>>
    /\ dispatched # <<>>

\* C8: whenever stop() is called on a started poller, also before the thread
\* body has begun executing, the loop eventually terminates.
C8_StopTerminates ==
    (stopped /\ pc # "unstarted") ~> (pc \in {"finished", "crashed"})

\* C9: the loop never calls poll or recv on a stream that no longer exists.
C9_NeverUsesLostStream ==
    pc # "crashed"

\* C10 as stated: a message sent to a running poller (on a stream that still
\* exists) is reflected by pos()
\* within one poll cycle: once a poll has returned after the send and its
\* cycle is over, the message is no longer waiting.
C10_WithinOnePollCycle ==
    \A i \in DOMAIN queue :
        (input_stream /\ queue[i].live /\ pc \in AtLoopTop) => queue[i].polls = 0

\* C10 as amended: on a stream that still exists each poll cycle receives
\* the oldest waiting message, so a message sent behind k waiting ones is
\* reflected within k+1 poll cycles (within one when none is waiting);
\* pos() is None until the first message is received and is afterwards the
\* position of the last received message.
C10_WithinBacklogPollCycles ==
    /\ pos = nextPosition - 1 - Len(queue)
    /\ \A i \in DOMAIN queue :
           (input_stream /\ pc \in AtLoopTop \cup Inert) =>
               queue[i].polls + (i - 1) <= queue[i].ahead

C10_Witness ==
    /\ pc = "dispatch"
    /\ pos = 2
    /\ queue # <<>>
    /\ queue[1].ahead = 2
    /\ queue[1].polls = 2

\* C16: after any sequence of Host calls, successful or failing, distinct
\* names own distinct processes and the registry's entries are exactly the
\* processes the Host has spawned and not yet stopped.
C16_RegistryMatchesProcesses ==
    /\ \A n, m \in DOMAIN nodegroup_process :
           n # m => nodegroup_process[n] # nodegroup_process[m]
    /\ {nodegroup_process[n] : n \in DOMAIN nodegroup_process}
           = {p \in Pids : procState[p] \in Live}

C16_Witness ==
    /\ reply.op = "close_all_nodegroups"
    /\ reply.result = "NodesStillRunning"
    /\ \E p \in Pids : procState[p] = "exited"
    /\ DOMAIN nodegroup_process # {}

\* The entries other than name, and their processes, are as they were.
OthersUntouched(name) ==
    \A n \in DOMAIN nodegroup_process \ {name} :
        /\ n \in DOMAIN nodegroup_process'
        /\ nodegroup_process'[n] = nodegroup_process[n]
        /\ procState'[nodegroup_process[n]] = procState[nodegroup_process[n]]

\* C17: a close_nodegroup refused with NodesStillRunning stops nothing and
\* leaves the registry unchanged; a successful create_nodegroup or
\* close_nodegroup adds or removes only the entry it names; close_nodegroup
\* of a name the Host does not own fails with the registry unchanged.
C17_OnlyTheNamedEntry ==
    [][/\ (/\ Dispatches("close_nodegroup")
           /\ Owned(request.name)
           /\ ~request.force
           /\ procState[nodegroup_process[request.name]] = "running") =>
              (nodegroup_process' = nodegroup_process /\ procState' = procState)
       /\ (Dispatches("close_nodegroup") /\ ~Owned(request.name)) =>
              /\ reply'.result # "ok"
              /\ nodegroup_process' = nodegroup_process
              /\ procState' = procState
       /\ (Dispatches("close_nodegroup") /\ reply'.result = "ok") =>
              /\ DOMAIN nodegroup_process' = DOMAIN nodegroup_process \ {request.name}
              /\ OthersUntouched(request.name)
       /\ (Dispatches("create_nodegroup") /\ reply'.result = "ok") =>
              /\ DOMAIN nodegroup_process' = DOMAIN nodegroup_process \cup {request.name}
              /\ OthersUntouched(request.name)]_vars

C17_Witness ==
    /\ reply.op = "close_nodegroup"
    /\ reply.result = "NodesStillRunning"
    /\ Cardinality(DOMAIN nodegroup_process) = 2
    /\ \A n \in DOMAIN nodegroup_process : procState[nodegroup_process[n]] = "running"

\* C14: StreamConverter and ChannelSplitter can be restarted: stop() signals
\* the poller and joins it, a further start() resumes polling, and stop()
\* always returns (the join ends) however soon it follows start().
C14_StopAlwaysReturns ==
    (stopped /\ caller = "wait") ~> (caller = "idle")

\* C15: while the poller runs on its stream, the messages sent are received
\* and dispatched exactly once and in send order, one recv and one dispatch
\* per positive poll and none per zero poll, and none stays undispatched
\* unless the poller is stopped (or its stream is gone).
InFlight == IF pc = "dispatch" THEN 1 ELSE 0
C15_EachMessageOnceInOrder ==
    /\ [](/\ dispatched = [i \in 1..Len(dispatched) |-> i]
          /\ Len(dispatched) + InFlight + Len(queue) = nextPosition - 1
          /\ \A i \in DOMAIN queue : queue[i].position = Len(dispatched) + InFlight + i)
    /\ [][(pc = "poll" /\ pc' = "recv") => queue # <<>>]_vars
    /\ [][(pc = "poll" /\ pc' = "loop") =>
              (queue = <<>> /\ dispatched' = dispatched /\ pos_' = pos_)]_vars
    /\ \A n \in 0..MaxSends :
          (pc \in Looping /\ Len(dispatched) = n /\ nextPosition - 1 > n)
              ~> (Len(dispatched) > n \/ stopped \/ ~input_stream)

C15_Witness ==
    /\ Len(dispatched) = MaxSends
    /\ ~stopped
    /\ input_stream
    /\ starts = 1

\* C20: once stop() has returned on a poller whose loop is executing, the
\* loop makes at most one more poll, hence at most one more recv and
\* dispatch, and exits; it never starts a second poll.
C20_AtMostOnePollAfterStop ==
    after_stop.at \in Looping =>
        /\ after_stop.polls <= 1
        /\ after_stop.dispatches <= 1
        /\ ~running

C20_Witness ==
    /\ after_stop.at = "poll"
    /\ after_stop.polls = 1
    /\ after_stop.dispatches = 1
    /\ pc = "finished"

\* The samples of the chunk that was received with position p.
ChunkLen(p) ==
    LET before == {0} \cup {received[i] : i \in DOMAIN received} IN
    p - (CHOOSE q \in before : q < p /\ \A x \in before : x < p => x <= q)

Elements(data) == {data.at[rc] : rc \in DOMAIN data.at}

ListedChannels(chans) == {chans[j] : j \in DOMAIN chans}

\* C11: a ChannelSplitter sends on each output exactly the channels of that
\* output's group, all samples of the chunk, whichever axis is the time axis.
C11_RoutesGroupChannels ==
    node = "ChannelSplitter" =>
        \A k \in DOMAIN sent : \A i \in DOMAIN sent[k] :
            Elements(sent[k][i].data) =
                (0..(ChunkLen(sent[k][i].position) - 1)) \X ListedChannels(output_channels[k])

\* C12: every (position, data) a ChannelSplitter receives is sent once on
\* each output with the same position, in the order received.
C12_PositionsPreserved ==
    (node = "ChannelSplitter" /\ connect_result = "ok") =>
        \A k \in DOMAIN output_channels :
            /\ k \in DOMAIN sent
            /\ [i \in DOMAIN sent[k] |-> sent[k][i].position] = received

\* C13: the Converter and the Splitter never forward an empty payload: when
\* recv() gave no data the slice is fetched with get_array_slice(position,
\* length) first, so every send carries samples and a received position.
C13_NoEmptyPayload ==
    /\ fault # "TypeError"
    /\ \A k \in DOMAIN sent : \A i \in DOMAIN sent[k] :
          /\ sent[k][i].data.kind = "array"
          /\ \E j \in DOMAIN received : received[j] = sent[k][i].position

\* Some configured group names a channel the input does not have.
BadGroup ==
    \E k \in DOMAIN output_channels : \E j \in DOMAIN output_channels[k] :
        output_channels[k][j] < 0 \/ output_channels[k][j] >= input_params.nb_channel

\* C18: after an input connection the output slots are exactly the group
\* names, each with its group's size as nb_channel, the input's dtype and
\* sample_rate and the shape its timeaxis asks for; with a group naming a
\* channel outside 0..n-1 the connection fails and creates no slot.
C18_OutputSlots ==
    (node = "ChannelSplitter" /\ connects > 0) =>
        IF BadGroup
        THEN connect_result # "ok" /\ DOMAIN outputs = {}
        ELSE /\ connect_result = "ok"
             /\ DOMAIN outputs = DOMAIN output_channels
             /\ \A k \in DOMAIN outputs :
                  LET size == Len(output_channels[k]) IN
                    /\ outputs[k].nb_channel = size
                    /\ outputs[k].dtype = input_params.dtype
                    /\ outputs[k].sample_rate = input_params.sample_rate
                    /\ outputs[k].shape = IF outputs[k].timeaxis = 0
                                          THEN <<-1, size>> ELSE <<size, -1>>

\* C19: configured with output_timeaxis='same', every output spec has the
\* timeaxis of the input now connected, after any sequence of connections;
\* configured with an integer, every output spec has that timeaxis.
C19_OutputTimeaxisFollowsInput ==
    (node = "ChannelSplitter" /\ connect_result = "ok") =>
        \A k \in DOMAIN outputs :
            outputs[k].timeaxis =
                IF asked_timeaxis = same THEN input_params.timeaxis ELSE asked_timeaxis

====
